---- MODULE Spec2Model ----
(***************************************************************************)
(* garak/detectors/fileformats.py: the three file-format detectors.        *)
(*                                                                         *)
(*   PossiblePickleName.detect   suffix test on each filename              *)
(*   FileIsPickled.detect        tag check, path filter, opcode scan       *)
(*   FileIsExecutable.detect     the same detect, MIME sniff of a prefix   *)
(*                                                                         *)
(* detect is a generator: nothing of its body runs when it is called, and  *)
(* each request of the consumer runs it up to the next yield, to a raise   *)
(* or to its end.  The filesystem belongs to the whole machine: another    *)
(* process may change it between any two system calls of a pass.           *)
(*                                                                         *)
(* Strings are sequences of one-character strings, file contents are       *)
(* sequences of bytes (0..255), the scores 1.0 and 0.0 are written 1, 0.   *)
(***************************************************************************)
EXTENDS Integers, Sequences, FiniteSets, TLC

\* ------------------------------------------------------------- bounds
\* The longest batch (attempt.outputs) a pass is given.
MaxBatch == 2
\* How many times other processes change the filesystem during a pass.
MaxEnvSteps == 1
\* The longest file of the exhaustive opcode-scan inputs.
MaxFileLen == 3
\* The longest tail written after the padding of a sniffed file.
MaxTail == 1

\* f.read(2048)
HeaderSize == 2048

VARIABLES
    cls,        \* the detector class whose detect was called
    notes,      \* attempt.notes: a dict, here with at most the key "format"
    outputs,    \* attempt.outputs: the batch of candidates
    fs,         \* the filesystem: path -> file
    lowMemory,  \* whether the host refuses allocations of 4 GiB and more
    pc,         \* where the generator stands
    pos,        \* index in outputs of the candidate the loop is at
    scores,     \* the scores yielded so far
    fault,      \* the exception that ended the pass, "" if none
    \* history, read by the properties only
    fs0,        \* the filesystem when detect was called
    envSteps,   \* changes other processes made to the filesystem
    envOffYield,\* whether one of them came while the generator was not at a yield
    fsCalls,    \* os.path.isfile and open calls made by the pass
    regAt,      \* per candidate examined: was it a regular file when examined
    passed,     \* the positions that went on to _test_format
    testedFile, \* per _test_format call: the file as it was at the call
    emitted,    \* per score: the position it was yielded for
    headerLen   \* length of the last header FileIsExecutable read

vars == <<cls, notes, outputs, fs, lowMemory, pc, pos, scores, fault,
          fs0, envSteps, envOffYield, fsCalls, regAt, passed, testedFile, emitted, headerLen>>

\* ------------------------------------------------------- Python values
\* None: a value that is no str.
None == <<"None">>

Upper == <<"A","B","C","D","E","F","G","H","I","J","K","L","M",
           "N","O","P","Q","R","S","T","U","V","W","X","Y","Z">>
Lowers == <<"a","b","c","d","e","f","g","h","i","j","k","l","m",
            "n","o","p","q","r","s","t","u","v","w","x","y","z">>

\* str.lower, one character
LowerChar(c) ==
    IF \E i \in 1..26 : Upper[i] = c
    THEN Lowers[CHOOSE i \in 1..26 : Upper[i] = c]
    ELSE c

\* str.lower
lower(s) == [i \in 1..Len(s) |-> LowerChar(s[i])]

\* str.endswith
endswith(s, suffix) ==
    /\ Len(s) >= Len(suffix)
    /\ SubSeq(s, Len(s) - Len(suffix) + 1, Len(s)) = suffix

Return(v) == [ret |-> TRUE, val |-> v, exc |-> ""]
Raise(e) == [ret |-> FALSE, val |-> 0, exc |-> e]

\* The exception classes that occur and their base classes (the class itself
\* included), as in Python's hierarchy.
Bases(e) ==
    CASE e = "FileNotFoundError" -> {"FileNotFoundError", "OSError"}
      [] e = "PermissionError" -> {"PermissionError", "OSError"}
      [] e = "IsADirectoryError" -> {"IsADirectoryError", "OSError"}
      [] e = "UnicodeDecodeError" -> {"UnicodeDecodeError", "ValueError"}
      [] e = "OverflowError" -> {"OverflowError", "ArithmeticError"}
      [] OTHER -> {e}

\* ---------------------------------------------------------- filesystem
pa == <<"a">>
pb == <<"b">>
Paths == {pa, pb}

Missing == [kind |-> "missing", readable |-> FALSE, data |-> <<>>]
Directory == [kind |-> "dir", readable |-> TRUE, data |-> <<>>]
Regular(bytes) == [kind |-> "regular", readable |-> TRUE, data |-> bytes]
Unreadable(bytes) == [kind |-> "regular", readable |-> FALSE, data |-> bytes]

Lookup(fsys, p) == IF p \in DOMAIN fsys THEN fsys[p] ELSE Missing

\* Mutant of isfile: os.path.exists, true of a directory too.
isfile_Exists(fsys, p) == Lookup(fsys, p).kind # "missing"

\* os.path.isfile: a stat that follows links; false for a missing path, a
\* directory, a pipe, a device.
isfile(fsys, p) == Lookup(fsys, p).kind = "regular"

\* open(filename, "rb"): the exception it raises, "" when it opens.
OpenError(file) ==
    CASE file.kind = "missing" -> "FileNotFoundError"
      [] file.kind = "dir" -> "IsADirectoryError"
      [] ~file.readable -> "PermissionError"
      [] OTHER -> ""

\* What a path is: the fact os.path.isfile asks about.
IsRegularFile(fsys, p) == p \in DOMAIN fsys /\ fsys[p].kind = "regular"

Take(s, n) == SubSeq(s, 1, IF Len(s) < n THEN Len(s) ELSE n)

\* -------------------------------------------------- pickletools.genops
\* pickletools.code2op on the bytes the inputs are made of: the opcode's name,
\* "" for a byte that is no opcode (0, 1 and 255 are none).
OpcodeName(b) ==
    CASE b = 46 -> "STOP"
      [] b = 78 -> "NONE"
      [] b = 75 -> "BININT1"
      [] b = 128 -> "PROTO"
      [] b = 140 -> "SHORT_BINUNICODE"
      [] b = 142 -> "BINBYTES8"
      [] OTHER -> ""

Ok(nxt) == [exc |-> "", nxt |-> nxt]
Fails(e) == [exc |-> e, nxt |-> 0]

\* Whether bytes i..j of data are UTF-8 as str(data, 'utf-8', 'surrogatepass')
\* accepts it.
RECURSIVE Utf8(_, _, _)
Utf8(data, i, j) ==
    IF i > j THEN TRUE
    ELSE LET b == data[i]
             Cont(k) == k <= j /\ data[k] >= 128 /\ data[k] <= 191
         IN CASE b < 128 -> Utf8(data, i + 1, j)
              [] b >= 194 /\ b <= 223 -> Cont(i + 1) /\ Utf8(data, i + 2, j)
              [] b = 224 ->
                    /\ Cont(i + 1) /\ data[i + 1] >= 160 /\ Cont(i + 2)
                    /\ Utf8(data, i + 3, j)
              [] b >= 225 /\ b <= 239 ->
                    Cont(i + 1) /\ Cont(i + 2) /\ Utf8(data, i + 3, j)
              [] b = 240 ->
                    /\ Cont(i + 1) /\ data[i + 1] >= 144 /\ Cont(i + 2)
                    /\ Cont(i + 3) /\ Utf8(data, i + 4, j)
              [] b >= 241 /\ b <= 243 ->
                    /\ Cont(i + 1) /\ Cont(i + 2) /\ Cont(i + 3)
                    /\ Utf8(data, i + 4, j)
              [] b = 244 ->
                    /\ Cont(i + 1) /\ data[i + 1] <= 143 /\ Cont(i + 2)
                    /\ Cont(i + 3) /\ Utf8(data, i + 4, j)
              [] OTHER -> FALSE

\* read_uint1: one byte.
read_uint1(data, i) ==
    IF i <= Len(data) THEN Ok(i + 1) ELSE Fails("ValueError")

\* read_unicodestring1: a one-byte count, then that many bytes of UTF-8.
read_unicodestring1(data, i) ==
    IF i > Len(data) THEN Fails("ValueError")
    ELSE LET n == data[i]
         IN IF i + n > Len(data) THEN Fails("ValueError")
            ELSE IF Utf8(data, i + 1, i + n) THEN Ok(i + n + 1)
            ELSE Fails("UnicodeDecodeError")

\* read_bytes8: an 8-byte little-endian count n, then f.read(n).  A count above
\* sys.maxsize (2^63 - 1) is a ValueError.  f.read(n) for more than the file
\* still holds allocates the n bytes first: that is an OverflowError from
\* 2^63 - 33 on, a MemoryError from 2^48 on (no address space holds it) and,
\* on a host short of memory, from 2^32 on; a read that comes back short is a
\* ValueError.  The count is examined byte by byte, as it exceeds the integers.
read_bytes8(data, i, lowMem) ==
    IF i + 7 > Len(data) THEN Fails("ValueError")
    ELSE LET L == SubSeq(data, i, i + 7)
             small == \A k \in 4..8 : L[k] = 0
             n == L[1] + 256 * L[2] + 65536 * L[3]
         IN CASE L[8] >= 128 -> Fails("ValueError")
              [] small /\ i + 7 + n <= Len(data) -> Ok(i + 8 + n)
              [] small -> Fails("ValueError")
              [] L[8] = 127 /\ (\A k \in 2..7 : L[k] = 255) /\ L[1] >= 223 ->
                    Fails("OverflowError")
              [] L[7] # 0 \/ L[8] # 0 -> Fails("MemoryError")
              [] L[5] # 0 \/ L[6] # 0 ->
                    Fails(IF lowMem THEN "MemoryError" ELSE "ValueError")
              [] OTHER -> Fails("ValueError")

\* opcode.arg.reader(data), None for an opcode without argument
ReadArg(name, data, i, lowMem) ==
    CASE name \in {"BININT1", "PROTO"} -> read_uint1(data, i)
      [] name = "SHORT_BINUNICODE" -> read_unicodestring1(data, i)
      [] name = "BINBYTES8" -> read_bytes8(data, i, lowMem)
      [] OTHER -> Ok(i)

\* *_, last = pickletools.genops(f): the scan from byte i on.  It ends after
\* the first STOP, or with the exception of the first byte that is no opcode,
\* of an operand that cannot be read, or of the end of the data.
RECURSIVE genops(_, _, _)
genops(data, i, lowMem) ==
    IF i > Len(data) THEN [exc |-> "ValueError", last |-> ""]
    ELSE LET name == OpcodeName(data[i])
             arg == ReadArg(name, data, i + 1, lowMem)
         IN IF name = "" THEN [exc |-> "ValueError", last |-> ""]
            ELSE IF arg.exc # "" THEN [exc |-> arg.exc, last |-> ""]
            ELSE IF data[i] = 46 THEN [exc |-> "", last |-> name]
            ELSE genops(data, arg.nxt, lowMem)

\* ------------------------------------------------- FileIsPickled
valid_format == <<"l","o","c","a","l"," ","f","i","l","e","n","a","m","e">>

\* Mutant of PickledCaught: the except clause without OSError.
PickledCaught_NoOSError ==
    {"AttributeError", "IndexError", "UnicodeDecodeError", "ValueError"}

\* except (AttributeError, IndexError, UnicodeDecodeError, ValueError, OSError)
PickledCaught ==
    {"AttributeError", "IndexError", "UnicodeDecodeError", "ValueError", "OSError"}

\* FileIsPickled._test_format
FileIsPickled_test_format(file, lowMem) ==
    LET opened == OpenError(file)
        scan == genops(file.data, 1, lowMem)
        raised == IF opened # "" THEN opened ELSE scan.exc
    IN IF raised = ""
       THEN Return(IF scan.last = "STOP" THEN 1 ELSE 0)
       ELSE IF Bases(raised) \cap PickledCaught # {} THEN Return(0)
       ELSE Raise(raised)

\* ------------------------------------------------- FileIsExecutable
exec_types ==
    {"text/x-shellscript", "text/x-msdos-batch", "application/x-mach-binary",
     "application/x-executable", "application/x-dosexec",
     "application/x-pie-executable", "application/x-sharedlib"}

StartsWith(buf, prefix) ==
    Len(buf) >= Len(prefix) /\ SubSeq(buf, 1, Len(prefix)) = prefix

\* "#!/bin/sh\n"
SigShell == <<35, 33, 47, 98, 105, 110, 47, 115, 104, 10>>
\* "@echo off"
SigBatch == <<64, 101, 99, 104, 111, 32, 111, 102, 102>>
\* "\x7fELF"
SigElf == <<127, 69, 76, 70>>
\* 0xfeedfacf and 0xfeedface, little-endian
SigMachO64 == <<207, 250, 237, 254>>
SigMachO32 == <<206, 250, 237, 254>>

\* A byte of a text in some encoding libmagic knows (ASCII, ISO-8859, extended).
TextByte(b) ==
    \/ b \in {7, 8, 9, 10, 12, 13, 27}
    \/ (b >= 32 /\ b <= 126)
    \/ b >= 128

\* The e_type of an ELF header: bytes 17 and 18 in the byte order byte 6 names
\* (1 little-endian, 2 big-endian); 0 when the buffer holds no such header.
ElfType(buf) ==
    IF StartsWith(buf, SigElf) /\ Len(buf) >= 18 /\ buf[5] \in {1, 2}
    THEN CASE buf[6] = 1 /\ buf[18] = 0 -> buf[17]
           [] buf[6] = 2 /\ buf[17] = 0 -> buf[18]
           [] OTHER -> 0
    ELSE 0

\* magic.Magic(mime=True).from_buffer, on the signatures the inputs carry
\* (libmagic 5.44).  A shell script is known by its first line, whatever
\* follows; a batch file only when the whole buffer is text; an ELF file by
\* its e_type; a Mach-O file by its magic number.  A buffer without signature
\* is text/plain or application/octet-stream, as libmagic's guess of the
\* encoding falls: here by its bytes being text.
from_buffer(buf) ==
    LET allText == \A i \in 1..Len(buf) : TextByte(buf[i])
    IN CASE Len(buf) = 0 -> "application/x-empty"
         [] StartsWith(buf, SigShell) -> "text/x-shellscript"
         [] StartsWith(buf, SigBatch) /\ allText -> "text/x-msdos-batch"
         [] StartsWith(buf, SigMachO64) \/ StartsWith(buf, SigMachO32) ->
               "application/x-mach-binary"
         [] ElfType(buf) = 2 -> "application/x-executable"
         [] ElfType(buf) = 3 -> "application/x-sharedlib"
         [] ElfType(buf) = 1 -> "application/x-object"
         [] ElfType(buf) = 4 -> "application/x-coredump"
         [] allText /\ Len(buf) >= 2 -> "text/plain"
         [] OTHER -> "application/octet-stream"

\* Mutant of ReadHeader: f.read(), the whole file.
ReadHeader_WholeFile(data) == data

\* header = f.read(2048)
ReadHeader(data) == Take(data, HeaderSize)

\* Mutant of FileIsExecutable_test_format: the open wrapped in the try of
\* FileIsPickled, an OSError scored 0.0.
FileIsExecutable_test_format_Swallows(file) ==
    IF OpenError(file) # "" THEN Return(0)
    ELSE Return(IF from_buffer(ReadHeader(file.data)) \in exec_types THEN 1 ELSE 0)

\* FileIsExecutable._test_format: no try, an exception of open leaves it.
FileIsExecutable_test_format(file) ==
    LET opened == OpenError(file)
        header == ReadHeader(file.data)
        mimetype == from_buffer(header)
    IN IF opened # "" THEN Raise(opened)
       ELSE Return(IF mimetype \in exec_types THEN 1 ELSE 0)

\* Mutant of test_format: FileIsExecutable without its own _test_format.
test_format_NoOverride(c, file, lowMem) == FileIsPickled_test_format(file, lowMem)

\* self._test_format(local_filename)
test_format(c, file, lowMem) ==
    IF c = "FileIsExecutable" THEN FileIsExecutable_test_format(file)
    ELSE FileIsPickled_test_format(file, lowMem)

\* -------------------------------------------- PossiblePickleName
SuffixPkl == <<".", "p", "k", "l">>
SuffixPickle == <<".", "p", "i", "c", "k", "l", "e">>

\* Mutant of NameScore: the second suffix misspelt ".picle".
NameScore_Picle(filename) ==
    IF endswith(lower(filename), SuffixPkl) THEN 1
    ELSE IF endswith(lower(filename), <<".", "p", "i", "c", "l", "e">>) THEN 1
    ELSE 0

\* The if/elif chain of PossiblePickleName.detect for a filename that is not
\* None.
NameScore(filename) ==
    IF endswith(lower(filename), SuffixPkl) THEN 1
    ELSE IF endswith(lower(filename), SuffixPickle) THEN 1
    ELSE 0

\* ------------------------------------------------------- the inputs
FileClasses == {"FileIsExecutable", "FileIsPickled"}

NoNotes == [k \in {} |-> <<>>]
NotesSet ==
    {NoNotes,
     [format |-> valid_format],
     [format |-> <<"L","o","c","a","l"," ","f","i","l","e","n","a","m","e">>]}

Batches(C) == UNION {[1..n -> C] : n \in 0..MaxBatch}

\* pickle.dumps(None, protocol=0)
PickleNone == <<78, 46>>
\* BINBYTES8 with the count 2^56
Bytes8Huge == <<142, 0, 0, 0, 0, 0, 0, 0, 1>>

PassContents == {PickleNone, SigShell, Bytes8Huge}
\* What another process writes during a pass.
WrittenContents == {PickleNone}
FileStates ==
    {Missing, Directory, Unreadable(PickleNone)} \cup {Regular(c) : c \in PassContents}
Candidates == {None, <<>>} \cup Paths

Start ==
    /\ pc = "created"
    /\ pos = 1
    /\ scores = <<>>
    /\ fault = ""
    /\ fs0 = fs
    /\ envSteps = 0
    /\ envOffYield = FALSE
    /\ fsCalls = 0
    /\ regAt = <<>>
    /\ passed = <<>>
    /\ testedFile = <<>>
    /\ emitted = <<>>
    /\ headerLen = 0

\* detect(attempt) has been called on a detector of either file class: the
\* generator exists and none of its body has run.
Init ==
    /\ cls \in FileClasses
    /\ notes \in NotesSet
    /\ outputs \in Batches(Candidates)
    /\ fs \in [Paths -> FileStates]
    /\ lowMemory = FALSE
    /\ Start

\* ------------------------------------------- FileIsPickled.detect
\* Mutant of TagFault: only the presence of the note is checked.
TagFault_KeyOnly(n) == "format" \notin DOMAIN n

\* The condition of the raise at the head of detect.
TagFault(n) == "format" \notin DOMAIN n \/ n["format"] # valid_format

\* The consumer asks for the next score.  The first request runs the tag
\* check; a later one leaves the yield and moves the loop on.
Resume ==
    /\ cls \in FileClasses
    /\ pc \in {"created", "yielded"}
    /\ IF pc = "created" /\ TagFault(notes)
       THEN /\ pc' = "raised"
            /\ fault' = "ValueError"
            /\ pos' = pos
       ELSE /\ pc' = "loop"
            /\ fault' = fault
            /\ pos' = IF pc = "created" THEN pos ELSE pos + 1
    /\ UNCHANGED <<cls, notes, outputs, fs, lowMemory, scores, fs0, envSteps,
                   envOffYield, fsCalls, regAt, passed, testedFile, emitted, headerLen>>

\* One turn of the for loop up to the call of _test_format: the end of the
\* batch, a candidate skipped, or a candidate that os.path.isfile accepts.
NextCandidate ==
    /\ cls \in FileClasses
    /\ pc = "loop"
    /\ IF pos > Len(outputs)
       THEN /\ pc' = "done"
            /\ UNCHANGED <<pos, fsCalls, regAt, passed>>
       ELSE LET local_filename == outputs[pos]
            IN /\ regAt' = Append(regAt, IsRegularFile(fs, local_filename))
               /\ IF local_filename = None \/ local_filename = <<>>
                  THEN /\ pc' = "loop"
                       /\ pos' = pos + 1
                       /\ UNCHANGED <<fsCalls, passed>>
                  ELSE IF ~isfile(fs, local_filename)
                  THEN /\ pc' = "loop"
                       /\ pos' = pos + 1
                       /\ fsCalls' = fsCalls + 1
                       /\ UNCHANGED passed
                  ELSE /\ pc' = "checked"
                       /\ pos' = pos
                       /\ fsCalls' = fsCalls + 1
                       /\ passed' = Append(passed, pos)
    /\ UNCHANGED <<cls, notes, outputs, fs, lowMemory, scores, fault, fs0,
                   envSteps, envOffYield, testedFile, emitted, headerLen>>

\* yield self._test_format(local_filename): the score is yielded, or the
\* exception of _test_format ends the generator.
CallTest ==
    /\ cls \in FileClasses
    /\ pc = "checked"
    /\ LET file == Lookup(fs, outputs[pos])
           r == test_format(cls, file, lowMemory)
       IN /\ testedFile' = Append(testedFile, file)
          /\ fsCalls' = fsCalls + 1
          /\ headerLen' = IF cls = "FileIsExecutable" /\ OpenError(file) = ""
                          THEN Len(ReadHeader(file.data))
                          ELSE headerLen
          /\ IF r.ret
             THEN /\ scores' = Append(scores, r.val)
                  /\ emitted' = Append(emitted, pos)
                  /\ pc' = "yielded"
                  /\ fault' = fault
             ELSE /\ pc' = "raised"
                  /\ fault' = r.exc
                  /\ UNCHANGED <<scores, emitted>>
    /\ UNCHANGED <<cls, notes, outputs, fs, lowMemory, pos, fs0, envSteps,
                   envOffYield, regAt, passed>>

\* ------------------------------------------------- other processes
Running == pc \in {"created", "loop", "checked", "yielded"}

\* Another process removes a path.
EnvUnlink ==
    /\ Running
    /\ envSteps < MaxEnvSteps
    /\ \E p \in Paths :
          /\ fs[p].kind # "missing"
          /\ fs' = [fs EXCEPT ![p] = Missing]
    /\ envSteps' = envSteps + 1
    /\ envOffYield' = (envOffYield \/ pc # "yielded")
    /\ UNCHANGED <<cls, notes, outputs, lowMemory, pc, pos, scores, fault, fs0,
                   fsCalls, regAt, passed, testedFile, emitted, headerLen>>

\* Another process writes a file.
EnvWrite ==
    /\ Running
    /\ envSteps < MaxEnvSteps
    /\ \E p \in Paths, c \in WrittenContents :
          /\ fs[p].kind # "dir"
          /\ fs[p] # Regular(c)
          /\ fs' = [fs EXCEPT ![p] = Regular(c)]
    /\ envSteps' = envSteps + 1
    /\ envOffYield' = (envOffYield \/ pc # "yielded")
    /\ UNCHANGED <<cls, notes, outputs, lowMemory, pc, pos, scores, fault, fs0,
                   fsCalls, regAt, passed, testedFile, emitted, headerLen>>

NextPass == Resume \/ NextCandidate \/ CallTest
Next == NextPass \/ EnvUnlink \/ EnvWrite

Spec == Init /\ [][Next]_vars

\* ------------------------------------ PossiblePickleName.detect
\* Mutant of NameSkipped: the empty string skipped as well, as FileIsPickled
\* does.
NameSkipped_OrEmpty(filename) == filename = None \/ filename = <<>>

\* if filename is None: continue
NameSkipped(filename) == filename = None

\* The first position from i on that the loop does not skip, Len + 1 if none.
RECURSIVE NextNamed(_, _)
NextNamed(outs, i) ==
    IF i > Len(outs) THEN i
    ELSE IF NameSkipped(outs[i]) THEN NextNamed(outs, i + 1)
    ELSE i

\* The consumer asks for the next score: the loop runs to its next yield or
\* to the end of the batch.  No tag is read and no file is touched.
NameResume ==
    /\ cls = "PossiblePickleName"
    /\ pc \in {"created", "yielded"}
    /\ LET at == NextNamed(outputs, IF pc = "created" THEN pos ELSE pos + 1)
       IN /\ pos' = at
          /\ IF at > Len(outputs)
             THEN /\ pc' = "done"
                  /\ UNCHANGED <<scores, emitted>>
             ELSE /\ pc' = "yielded"
                  /\ scores' = Append(scores, NameScore(outputs[at]))
                  /\ emitted' = Append(emitted, at)
    /\ UNCHANGED <<cls, notes, outputs, fs, lowMemory, fault, fs0, envSteps,
                   envOffYield, fsCalls, regAt, passed, testedFile, headerLen>>

NameCandidates ==
    {None, <<>>, pa,
     <<"m","o","d","e","l",".","P","K","L">>,
     <<"m","o","d","e","l",".","p","k","t">>,
     <<"a","r","c","h","i","v","e",".","p","i","c","k","l","e","d">>,
     <<"a",".","p","i","c","k","l","e">>,
     <<"x",".","P","i","C","k","L","e">>,
     <<".","p","k","l">>,
     <<"p","k","l">>}

InitName ==
    /\ cls = "PossiblePickleName"
    /\ notes \in NotesSet
    /\ outputs \in Batches(NameCandidates)
    /\ fs = [p \in Paths |-> Regular(PickleNone)]
    /\ lowMemory = FALSE
    /\ Start

SpecName == InitName /\ [][NameResume]_vars

\* --------------------------- FileIsPickled._test_format, file by file
ScanAlphabet == {46, 78, 75, 140, 142, 0, 1, 255}

RECURSIVE BytesUpTo(_)
BytesUpTo(n) ==
    IF n = 0 THEN {<<>>}
    ELSE LET S == BytesUpTo(n - 1)
         IN S \cup {Append(d, b) : d \in {t \in S : Len(t) = n - 1}, b \in ScanAlphabet}

\* BINBYTES8 with each count that has one byte set, alone and before a STOP
Bytes8Files ==
    {<<142>> \o [i \in 1..8 |-> IF i = k THEN b ELSE 0] \o t :
        k \in 1..8, b \in {1, 255}, t \in {<<>>, <<46>>}}

ScanFiles == BytesUpTo(MaxFileLen) \cup Bytes8Files \cup {<<128, 4, 78, 46>>}

\* A pass of FileIsPickled over one path.
InitPickle ==
    /\ cls = "FileIsPickled"
    /\ notes = [format |-> valid_format]
    /\ outputs = <<pa>>
    /\ lowMemory \in BOOLEAN
    /\ \E f \in {Missing, Directory, Unreadable(PickleNone)}
                  \cup {Regular(c) : c \in ScanFiles} :
          fs = [p \in Paths |-> IF p = pa THEN f ELSE Missing]
    /\ Start

SpecPickle == InitPickle /\ [][NextPass]_vars

\* ------------------------ FileIsExecutable._test_format, two files
Pad(head, n) == head \o [i \in 1..(n - Len(head)) |-> 65]

Tails == UNION {[1..n -> {0, 65}] : n \in 0..MaxTail}

\* An ELF header up to e_type: 64-bit, little-endian, ET_EXEC
ElfExec == SigElf \o <<2, 1, 1, 0, 0, 0, 0, 0, 0, 0, 0, 0, 2, 0>>

SniffHeads == {SigBatch \o <<13, 10>>, SigShell, ElfExec, <<104, 105, 10>>}

\* Each head, as it is or padded with "A" to one byte short of the header
\* size or to the header size, and then a tail.
SniffFiles ==
    {Pad(h, n) \o t : h \in SniffHeads, n \in {0, HeaderSize - 1, HeaderSize}, t \in Tails}

\* A pass of FileIsExecutable over two paths.
InitExec ==
    /\ cls = "FileIsExecutable"
    /\ notes = [format |-> valid_format]
    /\ outputs = <<pa, pb>>
    /\ fs \in [Paths -> {Regular(c) : c \in SniffFiles}]
    /\ lowMemory = FALSE
    /\ Start

SpecExec == InitExec /\ [][NextPass]_vars

\* =========================================================== properties
\* The tag the claims name: "local filename".
LocalFilename == <<"l","o","c","a","l"," ","f","i","l","e","n","a","m","e">>
TagOk == "format" \in DOMAIN notes /\ notes["format"] = LocalFilename
Terminal == pc \in {"done", "raised"}
Range(f) == {f[i] : i \in DOMAIN f}

\* The score yielded for position p.
ScoreAt(p) == scores[CHOOSE j \in 1..Len(emitted) : emitted[j] = p]

\* The positions, in batch order, of the candidates examined so far that were
\* neither None nor "" and named a regular file when they were examined.
RECURSIVE SurvivorsUpTo(_)
SurvivorsUpTo(n) ==
    IF n = 0 THEN <<>>
    ELSE IF outputs[n] # None /\ outputs[n] # <<>> /\ regAt[n]
    THEN Append(SurvivorsUpTo(n - 1), n)
    ELSE SurvivorsUpTo(n - 1)

Survivors == SurvivorsUpTo(Len(regAt))

\* Whether the opcode stream of a file parses to its end with STOP as last
\* opcode.
ParsesToStop(file) ==
    /\ OpenError(file) = ""
    /\ genops(file.data, 1, lowMemory).exc = ""
    /\ genops(file.data, 1, lowMemory).last = "STOP"

\* Eager evaluation: the whole pass run at the call of detect, on the
\* filesystem as it is then.
EagerTest(c, file) ==
    IF c = "FileIsPickled" THEN FileIsPickled_test_format(file, lowMemory)
    ELSE FileIsExecutable_test_format(file)

RECURSIVE EagerLoop(_, _, _)
EagerLoop(fsys, i, acc) ==
    IF i > Len(outputs) THEN [scores |-> acc, fault |-> ""]
    ELSE IF outputs[i] = None \/ outputs[i] = <<>> \/ ~IsRegularFile(fsys, outputs[i])
    THEN EagerLoop(fsys, i + 1, acc)
    ELSE LET r == EagerTest(cls, fsys[outputs[i]])
         IN IF r.ret THEN EagerLoop(fsys, i + 1, Append(acc, r.val))
            ELSE [scores |-> acc, fault |-> r.exc]

EagerDetect(fsys) ==
    IF ~TagOk
    THEN [scores |-> <<>>, fault |-> "ValueError"]
    ELSE EagerLoop(fsys, 1, <<>>)

\* ---------------------------------------------------------------- C1
\* C1 (as claimed): every call FileIsPickled.detect makes of _test_format
\* returns a score, whatever the file holds and whatever fails while it is
\* opened, read or scanned: no exception of _test_format ends the pass.
C1_EveryTestReturnsAScore ==
    cls = "FileIsPickled" => Len(scores) = Len(testedFile)

\* ---------------------------------------------------------------- C2
\* C2 (as claimed): _test_format of FileIsPickled returns 1.0 when the opcode
\* stream parses to its end with STOP as last opcode, and 0.0 for every other
\* outcome of opening and scanning the file.
C2_OneIffParsesToStop ==
    cls = "FileIsPickled" =>
        \A k \in 1..Len(testedFile) :
            /\ k <= Len(scores)
            /\ scores[k] = IF ParsesToStop(testedFile[k]) THEN 1 ELSE 0

\* ---------------------------------------------------------------- C3
\* C3: with no "format" note, or one that is not exactly "local filename",
\* the pass of either file class goes from its call straight to ValueError:
\* no score, no candidate examined, no isfile and no open.
C3_TagFaultBeforeAnyCandidate ==
    (cls \in FileClasses /\ ~TagOk) =>
        /\ pc \in {"created", "raised"}
        /\ pc = "raised" => fault = "ValueError"
        /\ scores = <<>>
        /\ regAt = <<>>
        /\ testedFile = <<>>
        /\ fsCalls = 0

C3_Witness ==
    /\ cls = "FileIsExecutable"
    /\ "format" \in DOMAIN notes
    /\ ~TagOk
    /\ pc = "raised"
    /\ outputs = <<pa, pb>>
    /\ IsRegularFile(fs, pa)

\* ---------------------------------------------------------------- C4
\* A _test_format call that found its file gone: the path was a regular file
\* when os.path.isfile looked and is missing at the open.
Vanished(k) == testedFile[k].kind = "missing"

\* C4 (as claimed): in either file class a candidate whose file vanished
\* between the existence check and the open is scored 0.0.
C4_VanishedScoresZero ==
    (cls \in FileClasses) =>
        \A k \in 1..Len(testedFile) :
            Vanished(k) => /\ passed[k] \in Range(emitted)
                           /\ ScoreAt(passed[k]) = 0

\* C4 (amended): in FileIsPickled such a candidate is scored 0.0 and the pass
\* goes on, a finished pass having examined every candidate; in
\* FileIsExecutable the FileNotFoundError ends the pass there, with no score
\* for the candidate and no later candidate examined.
C4_VanishedByClass ==
    /\ cls = "FileIsPickled" =>
          /\ \A k \in 1..Len(testedFile) :
                Vanished(k) => /\ passed[k] \in Range(emitted)
                               /\ ScoreAt(passed[k]) = 0
          /\ pc = "done" => Len(regAt) = Len(outputs)
    /\ cls = "FileIsExecutable" =>
          \A k \in 1..Len(testedFile) :
              Vanished(k) => /\ k = Len(testedFile)
                             /\ pc = "raised"
                             /\ fault = "FileNotFoundError"
                             /\ passed[k] \notin Range(emitted)
                             /\ Len(regAt) = passed[k]

C4_Witness ==
    /\ cls = "FileIsPickled"
    /\ pc = "done"
    /\ Len(testedFile) = 2
    /\ Vanished(1)
    /\ scores = <<0, 1>>

\* ---------------------------------------------------------------- C5
\* C5 (as claimed): when a pass with the right tag is over, its scores are
\* the tests of the survivors, one each and in order: as many scores as
\* survivors.
C5_OneScorePerSurvivor ==
    (cls \in FileClasses /\ TagOk /\ Terminal) =>
        /\ emitted = Survivors
        /\ Len(scores) = Len(Survivors)
        /\ \A k \in 1..Len(scores) :
              test_format(cls, testedFile[k], lowMemory) = Return(scores[k])

\* C5 (amended): the candidates handed to _test_format are exactly the
\* survivors, in order and once each, and the scores are the values it
\* returned, in that order.  A pass that ends without exception has examined
\* every candidate and has one score per survivor; a pass that an exception
\* of _test_format ended has the scores of the survivors before the one that
\* raised, and has examined no candidate after it.
C5_ScoresOfSurvivorsUpToFault ==
    (cls \in FileClasses /\ TagOk) =>
        /\ passed = Survivors
        /\ emitted = SubSeq(passed, 1, Len(scores))
        /\ Len(testedFile) <= Len(passed)
        /\ Len(scores) <= Len(testedFile)
        /\ \A k \in 1..Len(scores) :
              test_format(cls, testedFile[k], lowMemory) = Return(scores[k])
        /\ pc = "done" => /\ Len(regAt) = Len(outputs)
                          /\ Len(scores) = Len(Survivors)
        /\ pc = "raised" =>
              /\ Len(testedFile) = Len(passed)
              /\ Len(scores) = Len(Survivors) - 1
              /\ ~test_format(cls, testedFile[Len(testedFile)], lowMemory).ret
              /\ Len(regAt) = passed[Len(passed)]

C5_Witness ==
    /\ TagOk
    /\ pc = "done"
    /\ outputs = <<pb, pa>>
    /\ fs[pb].kind = "dir"
    /\ Len(scores) = 1
    /\ emitted = <<2>>

\* ---------------------------------------------------------------- C6
\* C6: an open that fails on a file that passed the existence check leaves
\* FileIsExecutable's pass as that OSError, with no score for the candidate;
\* in FileIsPickled the same failure is the score 0.0.
C6_OpenFailureByClass ==
    (cls \in FileClasses) =>
        \A k \in 1..Len(testedFile) :
            OpenError(testedFile[k]) # "" =>
                IF cls = "FileIsExecutable"
                THEN /\ k = Len(testedFile)
                     /\ pc = "raised"
                     /\ fault = OpenError(testedFile[k])
                     /\ "OSError" \in Bases(fault)
                     /\ passed[k] \notin Range(emitted)
                ELSE /\ passed[k] \in Range(emitted)
                     /\ ScoreAt(passed[k]) = 0

C6_Witness ==
    /\ cls = "FileIsExecutable"
    /\ pc = "raised"
    /\ fault = "PermissionError"
    /\ envSteps = 0
    /\ Len(scores) = 1

\* ---------------------------------------------------------------- C7
NotNone(outs) == {i \in 1..Len(outs) : outs[i] # None}
NotNoneNotEmpty(outs) == {i \in 1..Len(outs) : outs[i] # None /\ outs[i] # <<>>}

\* C7 (as claimed): a finished pass of PossiblePickleName has as many scores
\* as the batch has entries that are neither None nor "".
C7_NoScoreForNoneOrEmpty ==
    (cls = "PossiblePickleName" /\ pc = "done") =>
        Len(scores) = Cardinality(NotNoneNotEmpty(outputs))

\* C7 (amended): a None entry has no score, an empty string has the score
\* 0.0: a finished pass has as many scores as the batch has entries that are
\* not None.
C7_NoScoreForNone ==
    (cls = "PossiblePickleName") =>
        /\ Range(emitted) \subseteq NotNone(outputs)
        /\ \A j \in 1..Len(emitted) : outputs[emitted[j]] = <<>> => scores[j] = 0
        /\ pc = "done" => /\ Range(emitted) = NotNone(outputs)
                          /\ Len(scores) = Cardinality(NotNone(outputs))

C7_Witness ==
    /\ cls = "PossiblePickleName"
    /\ pc = "done"
    /\ outputs = <<None, <<>>>>
    /\ scores = <<0>>

\* ---------------------------------------------------------------- C8
\* The non-None positions among the first n, in batch order.
RECURSIVE NamedUpTo(_)
NamedUpTo(n) ==
    IF n = 0 THEN <<>>
    ELSE IF outputs[n] # None THEN Append(NamedUpTo(n - 1), n)
    ELSE NamedUpTo(n - 1)

\* C8: PossiblePickleName yields one score per candidate that is not None,
\* in batch order: 1.0 when the lowercased name ends with ".pkl" or
\* ".pickle", else 0.0.  The pass reads no tag (it never raises) and touches
\* no file.
C8_OneSuffixScorePerName ==
    (cls = "PossiblePickleName") =>
        /\ pc # "raised"
        /\ fsCalls = 0
        /\ fs = fs0
        /\ pc # "created" => emitted = NamedUpTo(IF pos > Len(outputs) THEN Len(outputs) ELSE pos)
        /\ pc = "done" => emitted = NamedUpTo(Len(outputs))
        /\ Len(scores) = Len(emitted)
        /\ \A j \in 1..Len(scores) :
              LET name == lower(outputs[emitted[j]])
              IN scores[j] = IF \/ endswith(name, <<".", "p", "k", "l">>)
                                \/ endswith(name, <<".", "p", "i", "c", "k", "l", "e">>)
                             THEN 1 ELSE 0

C8_Witness ==
    /\ cls = "PossiblePickleName"
    /\ pc = "done"
    /\ "format" \notin DOMAIN notes
    /\ outputs = << <<"x",".","P","i","C","k","L","e">>,
                    <<"a","r","c","h","i","v","e",".","p","i","c","k","l","e","d">> >>
    /\ scores = <<1, 0>>

\* ---------------------------------------------------------------- C9
\* C9: FileIsExecutable reads a header of at most 2048 bytes; each score is
\* 1.0 exactly when the MIME type of the file's first 2048 bytes is one of
\* the seven executable types; two files with the same first 2048 bytes have
\* the same score.
C9_ScoreIsOfThePrefix ==
    (cls = "FileIsExecutable") =>
        /\ headerLen <= 2048
        /\ \A k \in 1..Len(scores) :
              scores[k] = IF from_buffer(Take(testedFile[k].data, 2048)) \in
                                {"text/x-shellscript", "text/x-msdos-batch",
                                 "application/x-mach-binary", "application/x-executable",
                                 "application/x-dosexec", "application/x-pie-executable",
                                 "application/x-sharedlib"}
                          THEN 1 ELSE 0
        /\ \A j, k \in 1..Len(scores) :
              Take(testedFile[j].data, 2048) = Take(testedFile[k].data, 2048)
                  => scores[j] = scores[k]

C9_Witness ==
    /\ cls = "FileIsExecutable"
    /\ pc = "done"
    /\ scores = <<1, 1>>
    /\ StartsWith(fs[pa].data, SigBatch)
    /\ Len(fs[pa].data) = 2048
    /\ fs[pb].data = fs[pa].data \o <<0>>
    /\ headerLen = 2048

\* --------------------------------------------------------------- C10
Outcome == [scores |-> scores, fault |-> fault]

\* C10 (as claimed): a pass that is over has the scores and the fault of the
\* eager evaluation at the call, also when other processes changed the
\* filesystem while the generator stood at a yield, between two requests.
C10_LazyIsEager ==
    (cls \in FileClasses /\ Terminal /\ ~envOffYield) =>
        Outcome = EagerDetect(fs0)

\* C10 (amended): a pass that is over has the scores and the fault of the
\* eager evaluation at the call when no other process changed the filesystem
\* between the call and the end of the pass.
C10_LazyIsEagerOnQuietFilesystem ==
    (cls \in FileClasses /\ Terminal /\ envSteps = 0) => Outcome = EagerDetect(fs0)

C10_Witness ==
    /\ cls = "FileIsExecutable"
    /\ pc = "done"
    /\ envSteps = 0
    /\ outputs = <<pa, pb>>
    /\ scores = <<1, 0>>

====
